---- MODULE Spec2Model ----
(***************************************************************************)
(* A model of lib/datasets/WiderPedestrian.py: the WiderPedestrian dataset *)
(* adapter (class WiderPedestrian(imdb)).  The state is one adapter object *)
(* together with the files it reads and writes; one action per public      *)
(* method.  numpy's uint16 box storage is kept (values are reduced modulo  *)
(* 2^16 when stored), Python's str/int typing of '+' is kept.              *)
(***************************************************************************)
EXTENDS Integers, Sequences, FiniteSets, TLC

VARIABLES
  coco,         \* self._COCO: the loaded annotation file (cats, imgs, anns)
  image_set,    \* self._image_set
  use_cache,    \* self._use_cache
  config,       \* self.config: [use_salt, cleanup]
  image_index,  \* self._image_index
  roidb,        \* self._roidb: [loaded, val]; loaded = FALSE is None
  cache,        \* the file <cache_path>/<name>_gt_roidb.pkl: [exists, blob]
  files,        \* results json files in the output directory: set of [path, data]
  eval_file,    \* whether <output_dir>/detection_results.pkl has been written
  ret,          \* outcome of the last method call: [op, status]
  gt_calls,     \* values returned by the gt_roidb() calls since the last flip (last two)
  res_file,     \* the res_file local of the last evaluate_detections call
  pre,          \* snapshot [roidb, index, cache] taken when the last call began
  mirrored,     \* append_flipped_images: 'flipped' of each record the last call mirrored
  n_flips,      \* number of append_flipped_images calls made so far
  all_boxes,    \* the all_boxes argument of the last results-writing call
  last_mode     \* argument of the last competition_mode call made by a client

vars == <<coco, image_set, use_cache, config, image_index, roidb, cache, files,
          eval_file, ret, gt_calls, res_file, pre, mirrored, n_flips, all_boxes,
          last_mode>>

----------------------------------------------------------------------------
(* Bounds of the model *)

\* how many times append_flipped_images may be called (each call doubles the index)
MaxFlips == 2
\* number of detection patterns offered to _write_coco_results_file
MaxPatterns == 3

(* Program constants *)

\* year = 2018 (an int)
Year == 2018
\* boxes = np.zeros((num_objs, 4), dtype=np.uint16): 16-bit storage
Uint16Modulus == 65536

----------------------------------------------------------------------------
(* Python / numpy helpers *)

Max(a, b) == IF a >= b THEN a ELSE b
Min(a, b) == IF a <= b THEN a ELSE b

\* storing an integer into a np.uint16 array (unsafe cast: wraps modulo 2^16)
ToUint16(v) == v % Uint16Modulus

\* Python values that take part in '+': a str is a sequence of text pieces
PyStr(s) == [t |-> "str", s |-> s, n |-> 0]
PyInt(n) == [t |-> "int", s |-> <<>>, n |-> n]
PyTypeError == [t |-> "TypeError", s |-> <<>>, n |-> 0]

\* a + b in Python: str + str concatenates, int + int adds, str + int raises
PyAdd(a, b) ==
  IF a.t = "str" /\ b.t = "str" THEN PyStr(a.s \o b.s)
  ELSE IF a.t = "int" /\ b.t = "int" THEN PyInt(a.n + b.n)
  ELSE PyTypeError

\* pickle.dump(obj, fid, pickle.HIGHEST_PROTOCOL) / pickle.load(fid)
PickleDump(obj) == [proto |-> "HIGHEST_PROTOCOL", obj |-> obj]
PickleLoad(blob) == blob.obj

NoCache == [exists |-> FALSE, blob |-> PickleDump(<<>>)]

RECURSIVE Flatten(_)
Flatten(ss) == IF ss = <<>> THEN <<>> ELSE Head(ss) \o Flatten(Tail(ss))

----------------------------------------------------------------------------
(* The class table built by __init__ *)

\* self._classes = tuple(['__background__'] + [c['name'] for c in cats])
Classes(c) == <<"__background__">> \o [k \in 1..Len(c.cats) |-> c.cats[k].name]

\* num_classes = len(self._classes)
NumClasses(c) == 1 + Len(c.cats)

\* dict(zip(keys, values)): a dict built from pairs keeps the last value of a key
DictZip(keys, values) ==
  [key \in {keys[k] : k \in 1..Len(keys)} |->
     values[CHOOSE k \in 1..Len(keys) :
              /\ keys[k] = key
              /\ \A j \in 1..Len(keys) : keys[j] = key => j <= k]]

\* self._class_to_ind = dict(zip(self.classes, range(self.num_classes)))
ClassToInd(c) == DictZip(Classes(c), [k \in 1..NumClasses(c) |-> k - 1])

\* self._class_to_coco_cat_id = dict(zip([c['name'] for c in cats], getCatIds()))
ClassToCocoCatId(c) ==
  DictZip([k \in 1..Len(c.cats) |-> c.cats[k].name],
          [k \in 1..Len(c.cats) |-> c.cats[k].id])

\* dict([(to_id[cls], to_ind[cls]) for cls in classes[1:]])
CatIdTable(classes, to_id, to_ind) ==
  DictZip([k \in 1..(Len(classes) - 1) |-> to_id[classes[k + 1]]],
          [k \in 1..(Len(classes) - 1) |-> to_ind[classes[k + 1]]])

\* coco_cat_id_to_class_ind of _load_coco_annotation
CocoCatIdToClassInd(c) == CatIdTable(Classes(c), ClassToCocoCatId(c), ClassToInd(c))

\* self._image_index = self._COCO.getImgIds()
LoadImageSetIndex(c) == [k \in 1..Len(c.imgs) |-> c.imgs[k].id]

\* self._COCO.loadImgs(index)[0]
LoadImg(c, index) == c.imgs[CHOOSE k \in 1..Len(c.imgs) : c.imgs[k].id = index]

\* self._COCO.loadAnns(self._COCO.getAnnIds(imgIds=index, iscrowd=None))
LoadAnns(c, index) == SelectSeq(c.anns, LAMBDA a : a.image_id = index)

----------------------------------------------------------------------------
(* _load_coco_annotation *)

\* x2 = np.min((width - 1, x1 + np.max((0, obj['bbox'][2] - 1)))), same for y2
ClipEnd(start, extent, size) == Min(size - 1, start + Max(0, extent - 1))

\* the sanitized box [x1, y1, x2, y2] of one raw annotation
CleanBbox(obj, width, height) ==
  <<Max(0, obj.bbox[1]),
    Max(0, obj.bbox[2]),
    ClipEnd(Max(0, obj.bbox[1]), obj.bbox[3], width),
    ClipEnd(Max(0, obj.bbox[2]), obj.bbox[4], height)>>

\* x2 >= x1 and y2 >= y1
Ordered(b) == b[3] >= b[1] /\ b[4] >= b[2]

\* if obj['area'] > 0 and x2 >= x1 and y2 >= y1
IsValidObj(obj, width, height) ==
  obj.area > 0 /\ Ordered(CleanBbox(obj, width, height))

\* boxes[ix, :] = obj['clean_bbox'] into the np.uint16 array
StoreBox(b) == <<ToUint16(b[1]), ToUint16(b[2]), ToUint16(b[3]), ToUint16(b[4])>>

\* a crowd row that is -1 in the column of the class only
OverlapRowCrowdOwnClass(crowd, cls, num_classes) ==
  [col \in 1..num_classes |-> IF col = cls + 1 THEN (IF crowd THEN -1 ELSE 1) ELSE 0]

\* the row of the overlaps matrix for one kept annotation (column c is position c+1)
OverlapRow(crowd, cls, num_classes) ==
  IF crowd
    THEN [col \in 1..num_classes |-> -1]
    ELSE [col \in 1..num_classes |-> IF col = cls + 1 THEN 1 ELSE 0]

\* ds_utils.validate_boxes(boxes, width=width, height=height): the record invariant
ValidateBoxes(boxes, width, height) ==
  \A k \in 1..Len(boxes) :
    /\ boxes[k][1] >= 0 /\ boxes[k][2] >= 0
    /\ boxes[k][3] >= boxes[k][1] /\ boxes[k][4] >= boxes[k][2]
    /\ boxes[k][3] < width /\ boxes[k][4] < height

\* the arrays filled from the kept annotations, and the returned dict
BuildRecord(objs, width, height, table, num_classes) ==
  [width |-> width,
   height |-> height,
   boxes |-> [ix \in 1..Len(objs) |-> StoreBox(CleanBbox(objs[ix], width, height))],
   gt_classes |-> [ix \in 1..Len(objs) |-> table[objs[ix].category_id]],
   gt_overlaps |-> [ix \in 1..Len(objs) |->
                      OverlapRow(objs[ix].iscrowd, table[objs[ix].category_id],
                                 num_classes)],
   flipped |-> FALSE,
   seg_areas |-> [ix \in 1..Len(objs) |-> objs[ix].area]]

\* the outcome of the validate_boxes call on the arrays built
Validated(rec) ==
  [status |-> IF ValidateBoxes(rec.boxes, rec.width, rec.height)
                THEN "ok" ELSE "AssertionError",
   rec |-> rec]

\* the conversion of the annotations objs of image im_ann
ConvertImage(im_ann, objs, table, num_classes) ==
  Validated(BuildRecord(SelectSeq(objs, LAMBDA o :
                                    IsValidObj(o, im_ann.width, im_ann.height)),
                        im_ann.width, im_ann.height, table, num_classes))

\* returns [status, rec]: the record, or the exception raised
LoadCocoAnnotation(c, index) ==
  ConvertImage(LoadImg(c, index), LoadAnns(c, index), CocoCatIdToClassInd(c),
               NumClasses(c))

----------------------------------------------------------------------------
(* gt_roidb *)

\* [self._load_coco_annotation(index) for index in self._image_index]
ConvertAll(c, index) == [k \in 1..Len(index) |-> LoadCocoAnnotation(c, index[k])]

\* a dump that loses the last record
CacheDumpTruncated(gt) ==
  [exists |-> TRUE, blob |-> PickleDump(SubSeq(gt, 1, Len(gt) - 1))]

\* the contents written to cache_file
CacheDump(gt) == [exists |-> TRUE, blob |-> PickleDump(gt)]

\* the cache-miss path, given the conversions of the index
GtRoidbMiss(conv, cf) ==
  IF \E k \in 1..Len(conv) : conv[k].status # "ok"
    THEN [status |-> "AssertionError", val |-> <<>>, cache |-> cf]
    ELSE [status |-> "ok", val |-> [k \in 1..Len(conv) |-> conv[k].rec],
          cache |-> CacheDump([k \in 1..Len(conv) |-> conv[k].rec])]

\* gt_roidb that reads any existing cache file, whatever self._use_cache says
GtRoidbCallIgnoresUseCache(c, index, uc, cf) ==
  IF cf.exists
    THEN [status |-> "ok", val |-> PickleLoad(cf.blob), cache |-> cf]
    ELSE GtRoidbMiss(ConvertAll(c, index), cf)

\* the call as a function of (coco, index, use_cache, cache):
\* [status, val, cache] = outcome, returned list, cache file afterwards
GtRoidbCall(c, index, uc, cf) ==
  IF cf.exists /\ uc
    THEN [status |-> "ok", val |-> PickleLoad(cf.blob), cache |-> cf]
    ELSE GtRoidbMiss(ConvertAll(c, index), cf)

\* the last two values returned since the last flip
Remember(calls, v) ==
  IF Len(calls) < 2 THEN Append(calls, v) ELSE <<calls[2], v>>

Snapshot == [roidb |-> roidb, index |-> image_index, cache |-> cache]

GtRoidb ==
  \E r \in {GtRoidbCall(coco, image_index, use_cache, cache)} :
    /\ cache' = r.cache
    /\ ret' = [op |-> "gt_roidb", status |-> r.status]
    /\ gt_calls' = IF r.status = "ok" THEN Remember(gt_calls, r.val) ELSE gt_calls
    /\ pre' = Snapshot
    /\ UNCHANGED <<coco, image_set, use_cache, config, image_index, roidb, files,
                   eval_file, res_file, mirrored, n_flips, all_boxes, last_mode>>

----------------------------------------------------------------------------
(* append_flipped_images *)

\* self._roidb = self.roidb_handler(), when the handler returned
Loaded(r, rdb) ==
  [status |-> r.status,
   roidb |-> IF r.status = "ok" THEN [loaded |-> TRUE, val |-> r.val] ELSE rdb,
   cache |-> r.cache]

\* the roidb property of imdb: self._roidb, computed by the roidb handler
\* (gt_roidb) when it is still None
RoidbProperty(rdb, c, index, uc, cf) ==
  IF rdb.loaded
    THEN [status |-> "ok", roidb |-> rdb, cache |-> cf]
    ELSE Loaded(GtRoidbCall(c, index, uc, cf), rdb)

\* a mirror that does not exchange the two ends of the box
FlipBoxesNoSwap(boxes, w) ==
  [k \in 1..Len(boxes) |->
     <<ToUint16(w - boxes[k][1] - 1), boxes[k][2],
       ToUint16(w - boxes[k][3] - 1), boxes[k][4]>>]

\* boxes[:, 0] = widths[i] - oldx2 - 1 ; boxes[:, 2] = widths[i] - oldx1 - 1
FlipBoxes(boxes, w) ==
  [k \in 1..Len(boxes) |->
     <<ToUint16(w - boxes[k][3] - 1), boxes[k][2],
       ToUint16(w - boxes[k][1] - 1), boxes[k][4]>>]

\* the entry appended for roidb[i]
FlippedEntry(r, w) ==
  [width |-> w, height |-> r.height, boxes |-> FlipBoxes(r.boxes, w),
   gt_classes |-> r.gt_classes, gt_overlaps |-> r.gt_overlaps,
   flipped |-> TRUE, seg_areas |-> r.seg_areas]

\* assert (boxes[:, 2] >= boxes[:, 0]).all()
FlipAssert(boxes) == \A k \in 1..Len(boxes) : boxes[k][3] >= boxes[k][1]

\* one pass of the loop body for position i, given the entry it builds
FlipStep(entry, val, src) ==
  IF FlipAssert(entry.boxes)
    THEN [status |-> "ok", val |-> Append(val, entry), flag |-> src.flipped]
    ELSE [status |-> "AssertionError", val |-> val, flag |-> src.flipped]

\* a loop that passes over the records that are already flipped
RECURSIVE FlipLoopSkipFlipped(_, _, _, _, _)
FlipLoopSkipFlipped(i, num_images, val, widths, seen) ==
  IF i > num_images THEN [status |-> "ok", val |-> val, seen |-> seen]
  ELSE IF i > Len(val) \/ i > Len(widths)
    THEN [status |-> "IndexError", val |-> val, seen |-> seen]
  ELSE IF val[i].flipped
    THEN FlipLoopSkipFlipped(i + 1, num_images, val, widths, seen)
  ELSE LET st == FlipStep(FlippedEntry(val[i], widths[i]), val, val[i])
       IN  IF st.status = "ok"
             THEN FlipLoopSkipFlipped(i + 1, num_images, st.val, widths,
                                      Append(seen, st.flag))
             ELSE [status |-> st.status, val |-> val, seen |-> seen]

\* for i in range(num_images): ... self.roidb.append(entry)
\* positions are 1-based here; widths was taken before the loop
RECURSIVE FlipLoop(_, _, _, _, _)
FlipLoop(i, num_images, val, widths, seen) ==
  IF i > num_images THEN [status |-> "ok", val |-> val, seen |-> seen]
  ELSE IF i > Len(val) \/ i > Len(widths)
    THEN [status |-> "IndexError", val |-> val, seen |-> seen]
  ELSE LET st == FlipStep(FlippedEntry(val[i], widths[i]), val, val[i])
       IN  IF st.status = "ok"
             THEN FlipLoop(i + 1, num_images, st.val, widths, Append(seen, st.flag))
             ELSE [status |-> st.status, val |-> val, seen |-> seen]

\* widths = self._get_widths(): [r['width'] for r in self.roidb]
GetWidths(val) == [k \in 1..Len(val) |-> val[k].width]

\* the loop over the loaded roidb, and the doubled index when it completes
FlipAll(p, index) ==
  IF p.status # "ok"
    THEN [status |-> p.status, ran |-> FALSE, val |-> p.roidb.val, seen |-> <<>>]
    ELSE [ran |-> TRUE] @@
         FlipLoop(1, Len(index), p.roidb.val, GetWidths(p.roidb.val), <<>>)

AppendFlippedImages ==
  /\ n_flips < MaxFlips
  /\ n_flips' = n_flips + 1
  /\ pre' = Snapshot
  /\ \E p \in {RoidbProperty(roidb, coco, image_index, use_cache, cache)} :
       /\ cache' = p.cache
       /\ \E f \in {FlipAll(p, image_index)} :
            /\ ret' = [op |-> "append_flipped_images", status |-> f.status]
            /\ IF f.ran
                 THEN /\ roidb' = [loaded |-> TRUE, val |-> f.val]
                      /\ mirrored' = f.seen
                      /\ gt_calls' = <<>>
                 ELSE UNCHANGED <<roidb, mirrored, gt_calls>>
            /\ image_index' = IF f.ran /\ f.status = "ok"
                                THEN image_index \o image_index
                                ELSE image_index
  /\ UNCHANGED <<coco, image_set, use_cache, config, files, eval_file, res_file,
                 all_boxes, last_mode>>

----------------------------------------------------------------------------
(* competition_mode *)

\* competition_mode(True) that forgets the cleanup flag
CompetitionModeConfigKeepsCleanup(cfg, on) ==
  IF on
    THEN [cfg EXCEPT !.use_salt = FALSE]
    ELSE [[cfg EXCEPT !.use_salt = TRUE] EXCEPT !.cleanup = TRUE]

\* the config dict after competition_mode(on)
CompetitionModeConfig(cfg, on) ==
  IF on
    THEN [[cfg EXCEPT !.use_salt = FALSE] EXCEPT !.cleanup = FALSE]
    ELSE [[cfg EXCEPT !.use_salt = TRUE] EXCEPT !.cleanup = TRUE]

\* self.config = {'use_salt': True, 'cleanup': True}
DefaultConfig == [use_salt |-> TRUE, cleanup |-> TRUE]

CompetitionMode(on) ==
  /\ config' = CompetitionModeConfig(config, on)
  /\ last_mode' = IF on THEN "on" ELSE "off"
  /\ ret' = [op |-> "competition_mode", status |-> "ok"]
  /\ pre' = Snapshot
  /\ UNCHANGED <<coco, image_set, use_cache, image_index, roidb, cache, files,
                 eval_file, gt_calls, res_file, mirrored, n_flips, all_boxes>>

----------------------------------------------------------------------------
(* _coco_results_one_category, _write_coco_results_file *)

\* a result dict whose width and height miss the + 1
ResultEntryNoPlusOne(row, index, cat_id) ==
  [image_id |-> index, category_id |-> cat_id,
   bbox |-> <<row[1], row[2], row[3] - row[1], row[4] - row[2]>>,
   score |-> row[5]]

\* one detection row (x1, y1, x2, y2, score) as a result dict
ResultEntry(row, index, cat_id) ==
  [image_id |-> index, category_id |-> cat_id,
   bbox |-> <<row[1], row[2], row[3] - row[1] + 1, row[4] - row[2] + 1>>,
   score |-> row[5]]

\* results of one class: for every image position, one entry per row of boxes[im_ind]
\* (boxes[im_ind] is a k x 5 array, k >= 0; 'dets == []' is false for such an
\* array, so the 'continue' is never taken and k = 0 adds no entry)
CocoResultsOneCategory(index, boxes, cat_id) ==
  Flatten([im \in 1..Len(index) |->
             [k \in 1..Len(boxes[im]) |-> ResultEntry(boxes[im][k], index[im], cat_id)]])

\* all_boxes[cls_ind] is position cls_ind + 1; '__background__' is skipped
CocoResults(c, index, boxes) ==
  Flatten([p \in 1..NumClasses(c) |->
             IF Classes(c)[p] = "__background__"
               THEN <<>>
               ELSE CocoResultsOneCategory(index, boxes[p],
                                           ClassToCocoCatId(c)[Classes(c)[p]])])

\* open(res_file, 'w') ; json.dump(results, fid)
WriteFile(fs, path, data) ==
  {f \in fs : f.path # path} \cup {[path |-> path, data |-> data]}

\* os.remove(res_file)
RemoveFile(fs, path) == {f \in fs : f.path # path}

\* the detection rows offered per (class, image)
DetChoices ==
  << <<>>,
     << <<10, 10, 20, 30, 90>> >>,
     << <<0, 0, 0, 0, 50>>, <<3, 4, 10, 6, 75>> >> >>

\* the k-th all_boxes input, shaped [num_classes][num_images]
AllBoxes(k, num_classes, num_images) ==
  [p \in 1..num_classes |->
     [im \in 1..num_images |-> DetChoices[((p + im + k) % 3) + 1]]]

ResultsPath == <<"out", "/", "results.json">>

WriteCocoResultsFile ==
  \E k \in 1..MaxPatterns :
    /\ all_boxes' = AllBoxes(k, NumClasses(coco), Len(image_index))
    /\ files' = WriteFile(files, ResultsPath,
                          CocoResults(coco, image_index, all_boxes'))
    /\ ret' = [op |-> "write_coco_results_file", status |-> "ok"]
    /\ pre' = Snapshot
    /\ UNCHANGED <<coco, image_set, use_cache, config, image_index, roidb, cache,
                   eval_file, gt_calls, res_file, mirrored, n_flips, last_mode>>

----------------------------------------------------------------------------
(* evaluate_detections *)

\* str(uuid.uuid4())
UUIDs == {"uuid-a", "uuid-b"}

\* 'detections_' + self._image_set + self._year + '_results'
ResultsName(iset, year) ==
  PyAdd(PyAdd(PyAdd(PyStr(<<"detections_">>), iset), year), PyStr(<<"_results">>))

\* osp.join(output_dir, name), then the optional '_<uuid>', then '.json'
ResFile(output_dir, name, use_salt, uuid) ==
  <<output_dir, "/">> \o name.s
    \o (IF use_salt THEN <<"_", uuid>> ELSE <<>>) \o <<".json">>

EvaluateDetections ==
  \E k \in 1..MaxPatterns, uuid \in UUIDs :
    LET name == ResultsName(PyStr(<<image_set>>), PyInt(Year))
        path == ResFile("out", name, config.use_salt, uuid)
    IN  /\ pre' = Snapshot
        /\ all_boxes' = AllBoxes(k, NumClasses(coco), Len(image_index))
        /\ IF name.t # "str"
             THEN /\ ret' = [op |-> "evaluate_detections", status |-> name.t]
                  /\ res_file' = <<>>
                  /\ UNCHANGED <<files, eval_file>>
             ELSE /\ ret' = [op |-> "evaluate_detections", status |-> "ok"]
                  /\ res_file' = path
                  /\ eval_file' = TRUE
                  /\ files' =
                       IF config.cleanup
                         THEN RemoveFile(WriteFile(files, path,
                                CocoResults(coco, image_index, all_boxes')), path)
                         ELSE WriteFile(files, path,
                                CocoResults(coco, image_index, all_boxes'))
        /\ UNCHANGED <<coco, image_set, use_cache, config, image_index, roidb, cache,
                       gt_calls, mirrored, n_flips, last_mode>>

----------------------------------------------------------------------------
(* Annotation files the adapter is constructed on *)

Ann(img, bbox, area, crowd, cat) ==
  [image_id |-> img, bbox |-> bbox, area |-> area, iscrowd |-> crowd,
   category_id |-> cat]

\* one category; two images; a crowd annotation and a degenerate one
DatasetA ==
  [cats |-> << [name |-> "pedestrian", id |-> 1] >>,
   imgs |-> << [id |-> 11, width |-> 100, height |-> 60],
               [id |-> 12, width |-> 8, height |-> 6] >>,
   anns |-> << Ann(11, <<10, 10, 41, 41>>, 1681, FALSE, 1),
               Ann(12, <<-2, 1, 5, 3>>, 15, TRUE, 1),
               Ann(11, <<120, 5, 4, 4>>, 16, FALSE, 1),
               Ann(12, <<6, 2, 9, 9>>, 81, FALSE, 1) >>]

\* two categories whose external ids are not the dense indices; one image
DatasetB ==
  [cats |-> << [name |-> "pedestrian", id |-> 5], [name |-> "cyclist", id |-> 2] >>,
   imgs |-> << [id |-> 7, width |-> 20, height |-> 10] >>,
   anns |-> << Ann(7, <<0, 0, 20, 10>>, 200, FALSE, 2),
               Ann(7, <<3, 3, 0, 4>>, 0, FALSE, 5),
               Ann(7, <<15, 2, 3, 3>>, 9, TRUE, 5) >>]

Datasets == {DatasetA, DatasetB}

\* a cache file left by an earlier run on annotation file d (possibly stale)
CacheOf(d) == GtRoidbCall(d, LoadImageSetIndex(d), TRUE, NoCache).cache

InitialCaches == {NoCache} \cup {CacheOf(d) : d \in Datasets}

\* the state __init__ leaves, given the annotation file, the image set, whether
\* ann_path was passed, and the cache file found on disk
Constructed(c, iset, ann_path_given, cf) ==
  /\ coco = c
  /\ image_set = iset
  /\ use_cache = ~ann_path_given
  /\ config = CompetitionModeConfig(DefaultConfig, FALSE)
  /\ image_index = LoadImageSetIndex(c)
  /\ roidb = [loaded |-> FALSE, val |-> <<>>]
  /\ cache = cf
  /\ files = {}
  /\ eval_file = FALSE
  /\ ret = [op |-> "__init__", status |-> "ok"]
  /\ gt_calls = <<>>
  /\ res_file = <<>>
  /\ pre = [roidb |-> [loaded |-> FALSE, val |-> <<>>],
            index |-> LoadImageSetIndex(c), cache |-> cf]
  /\ mirrored = <<>>
  /\ n_flips = 0
  /\ all_boxes = <<>>
  /\ last_mode = "none"

Init ==
  \E c \in Datasets, iset \in {"val"}, given \in BOOLEAN,
     cf \in InitialCaches :
    Constructed(c, iset, given, cf)

Next ==
  \/ GtRoidb
  \/ AppendFlippedImages
  \/ \E on \in BOOLEAN : CompetitionMode(on)
  \/ WriteCocoResultsFile
  \/ EvaluateDetections

Spec == Init /\ [][Next]_vars

----------------------------------------------------------------------------
(* Conversion and flipping over a range of raw annotations: one image whose *)
(* size and first annotation are drawn from the sets below                  *)

ConvWidths == {1, 3, 65536, 65538}
ConvHeights == {2}
ConvBx == {-2, 0, 2, 65535}
ConvBw == {0, 1, 2, 3}
ConvBy == {-1, 0, 2}
ConvBh == {0, 2}
ConvAreas == {0, 4}

ConvCats == << [name |-> "pedestrian", id |-> 5], [name |-> "cyclist", id |-> 2] >>

\* an annotation that every image size keeps: its clean box is (0, 0, 0, 0)
FixedAnn == Ann(7, <<0, 0, 1, 1>>, 1, FALSE, 2)

ConvDataset(w, h, a, second) ==
  [cats |-> ConvCats,
   imgs |-> << [id |-> 7, width |-> w, height |-> h] >>,
   anns |-> IF second THEN <<FixedAnn, a>> ELSE <<a>>]

ConvInit ==
  \E w \in ConvWidths, h \in ConvHeights, bx \in ConvBx, bw \in ConvBw,
     by \in ConvBy, bh \in ConvBh, area \in ConvAreas, crowd \in BOOLEAN,
     cat \in {5, 2}, second \in BOOLEAN :
    Constructed(ConvDataset(w, h, Ann(7, <<bx, by, bw, bh>>, area, crowd, cat), second),
                "val", FALSE, NoCache)

ConvNext ==
  \/ GtRoidb
  \/ AppendFlippedImages

ConvSpec == ConvInit /\ [][ConvNext]_vars

----------------------------------------------------------------------------
(* Properties *)

Last(seq) == seq[Len(seq)]

\* C8: the two flags are determined by the last competition_mode call: both
\* false after competition_mode(True), both true after competition_mode(False)
\* or when no call was made; so use_salt always equals cleanup.
C8_FlagsFollowLastCall ==
  /\ last_mode = "on" => config = [use_salt |-> FALSE, cleanup |-> FALSE]
  /\ last_mode \in {"off", "none"} => config = [use_salt |-> TRUE, cleanup |-> TRUE]
  /\ config.use_salt = config.cleanup

C8_Witness ==
  /\ last_mode = "on"
  /\ ret.op = "competition_mode"
  /\ ~config.use_salt /\ ~config.cleanup

\* the path the results file is to have: <outputDir>/detections_<imageSet><year>_results,
\* then _<uuid> exactly when use_salt is on, then .json
ExpectedResFile(uuid) ==
  <<"out", "/", "detections_", image_set, "2018", "_results">>
    \o (IF config.use_salt THEN <<"_", uuid>> ELSE <<>>) \o <<".json">>

\* C2: evaluate_detections writes the results file at the derived path (with the
\* unique suffix exactly when use_salt is on), runs the evaluation, and the file
\* exists afterwards exactly when cleanup is off.
C2_ResultsFileWrittenEvaluatedCleaned ==
  ret.op = "evaluate_detections" =>
    /\ ret.status = "ok"
    /\ \E uuid \in UUIDs : res_file = ExpectedResFile(uuid)
    /\ eval_file
    /\ (\E f \in files : f.path = res_file) <=> ~config.cleanup

\* C7: of two successive gt_roidb() returns with no append_flipped_images call
\* between them, the second is the same list as the first.
C7_SecondCallIdentical ==
  Len(gt_calls) = 2 => gt_calls[2] = gt_calls[1]

C7_Witness ==
  /\ Len(gt_calls) = 2
  /\ ret.op = "gt_roidb"
  /\ use_cache
  /\ ~pre.roidb.loaded
  /\ Len(gt_calls[2]) = Len(image_index)
  /\ Len(gt_calls[2]) > 1

\* C9: a gt_roidb() call that finds the cache file with caching enabled returns
\* the file's contents and leaves the file as it was; any other call returns the
\* conversion of every identifier of the index, in index order, and leaves
\* exactly that list in the cache file.
C9_CacheProtocol ==
  (ret.op = "gt_roidb" /\ ret.status = "ok") =>
    IF pre.cache.exists /\ use_cache
      THEN /\ Last(gt_calls) = pre.cache.blob.obj
           /\ cache = pre.cache
      ELSE /\ Len(Last(gt_calls)) = Len(pre.index)
           /\ \A k \in 1..Len(pre.index) :
                Last(gt_calls)[k] = LoadCocoAnnotation(coco, pre.index[k]).rec
           /\ cache.exists
           /\ cache.blob.obj = Last(gt_calls)

C9_Witness ==
  /\ ret.op = "gt_roidb" /\ ret.status = "ok"
  /\ pre.cache.exists /\ ~use_cache
  /\ cache # pre.cache
  /\ Len(Last(gt_calls)) = 2

\* the number of detection rows of the (class, image) pairs that come before
\* (c, i), classes first, counting the classes 1 and up only
EarlierRows(ab, n, c, i) ==
  Cardinality(UNION {{<<q[1], q[2], r>> : r \in 1..Len(ab[q[1] + 1][q[2]])} :
                       q \in {t \in (1..(Len(ab) - 1)) \X (1..n) :
                                t[1] < c \/ (t[1] = c /\ t[2] < i)}})

\* C6: the results file holds exactly one entry per detection row of every class
\* c >= 1 and every position i of the current index, none for class 0, ordered
\* by class, image position and row; the entry of row (x1, y1, x2, y2, score)
\* has image_id index[i], the external category id of class c,
\* bbox [x1, y1, x2 - x1 + 1, y2 - y1 + 1] and the score.
C6_ResultEntries ==
  ret.op = "write_coco_results_file" =>
    \E f \in files :
      /\ f.path = ResultsPath
      /\ Len(f.data) = EarlierRows(all_boxes, Len(image_index), Len(all_boxes), 1)
      /\ \A c \in 1..(Len(all_boxes) - 1) : \A i \in 1..Len(image_index) :
           \A r \in 1..Len(all_boxes[c + 1][i]) :
             f.data[EarlierRows(all_boxes, Len(image_index), c, i) + r] =
               [image_id |-> image_index[i],
                category_id |-> coco.cats[c].id,
                bbox |-> <<all_boxes[c + 1][i][r][1], all_boxes[c + 1][i][r][2],
                           all_boxes[c + 1][i][r][3] - all_boxes[c + 1][i][r][1] + 1,
                           all_boxes[c + 1][i][r][4] - all_boxes[c + 1][i][r][2] + 1>>,
                score |-> all_boxes[c + 1][i][r][5]]

C6_Witness ==
  /\ ret.op = "write_coco_results_file"
  /\ Len(image_index) = 2 * Len(coco.imgs)
  /\ Len(coco.cats) = 2
  /\ \E i \in 1..Len(image_index) : Len(all_boxes[1][i]) > 0
  /\ \E f \in files :
       /\ f.path = ResultsPath
       /\ \E k \in 1..Len(f.data) :
            /\ f.data[k].bbox = <<10, 10, 11, 21>>
            /\ f.data[k].score = 90
            /\ f.data[k].category_id = 2

\* C1 as stated: no record whose flipped field is true is ever mirrored.
C1_OnlyUnflippedMirrored ==
  \A k \in 1..Len(mirrored) : mirrored[k] = FALSE

\* C1 amended: a call mirrors the records at the positions of the index in
\* order, whether or not they are flipped already: the k-th record it appends
\* is the mirror of record k, it stops early only when an exception is raised,
\* and a call that completes has mirrored one record per index position.
C1_EveryRecordMirrored ==
  (ret.op = "append_flipped_images" /\ roidb.loaded) =>
    /\ Len(mirrored) <= Len(pre.index)
    /\ ret.status = "ok" => Len(mirrored) = Len(pre.index)
    /\ \A k \in 1..Len(mirrored) :
         LET src == roidb.val[k]
             new == roidb.val[Len(roidb.val) - Len(mirrored) + k]
         IN  /\ mirrored[k] = src.flipped
             /\ new.flipped
             /\ new.width = src.width /\ new.height = src.height
             /\ new.seg_areas = src.seg_areas /\ new.gt_classes = src.gt_classes
             /\ Len(new.boxes) = Len(src.boxes)

C1_Witness ==
  /\ ret.op = "append_flipped_images" /\ ret.status = "ok"
  /\ Len(mirrored) = 4
  /\ mirrored[3] = TRUE /\ mirrored[1] = FALSE

\* the one image of a conversion run and its raw annotations
TheImage == coco.imgs[1]

\* the clipped box of the claim, over the integers
ClippedBox(a, w, h) ==
  LET x1 == IF a.bbox[1] > 0 THEN a.bbox[1] ELSE 0
      y1 == IF a.bbox[2] > 0 THEN a.bbox[2] ELSE 0
      ex == IF a.bbox[3] - 1 > 0 THEN a.bbox[3] - 1 ELSE 0
      ey == IF a.bbox[4] - 1 > 0 THEN a.bbox[4] - 1 ELSE 0
  IN  <<x1, y1,
        IF x1 + ex < w - 1 THEN x1 + ex ELSE w - 1,
        IF y1 + ey < h - 1 THEN y1 + ey ELSE h - 1>>

\* the annotations the claim keeps
ToKeep(a) ==
  /\ a.area > 0
  /\ ClippedBox(a, TheImage.width, TheImage.height)[3]
       >= ClippedBox(a, TheImage.width, TheImage.height)[1]
  /\ ClippedBox(a, TheImage.width, TheImage.height)[4]
       >= ClippedBox(a, TheImage.width, TheImage.height)[2]

\* C3: the conversion of an image keeps exactly the annotations with area > 0
\* whose clipped box has x2 >= x1 and y2 >= y1; the record has one box, class,
\* overlap row and area per kept annotation and none for a dropped one, and
\* every box of it satisfies 0 <= x1 <= x2 <= width-1 and 0 <= y1 <= y2 <= height-1.
C3_KeepsExactlyValidBoxesInBounds ==
  ret.op = "gt_roidb" =>
    /\ ret.status = "ok"
    /\ LET rec == Last(gt_calls)[1]
           kept == SelectSeq(coco.anns, ToKeep)
       IN  /\ Len(rec.boxes) = Len(kept)
           /\ Len(rec.gt_classes) = Len(kept)
           /\ Len(rec.gt_overlaps) = Len(kept)
           /\ rec.seg_areas = [k \in 1..Len(kept) |-> kept[k].area]
           /\ \A k \in 1..Len(rec.boxes) :
                /\ 0 <= rec.boxes[k][1] /\ rec.boxes[k][1] <= rec.boxes[k][3]
                /\ rec.boxes[k][3] <= rec.width - 1
                /\ 0 <= rec.boxes[k][2] /\ rec.boxes[k][2] <= rec.boxes[k][4]
                /\ rec.boxes[k][4] <= rec.height - 1

\* the number of records the roidb held when the last flip loop began
Before == Len(roidb.val) - Len(mirrored)

\* C4: a call on N records and an index of N identifiers leaves 2N records and
\* 2N identifiers with index[N+i] = index[i]; record N+i is record i with
\* flipped = true and every box (x1, y1, x2, y2) mapped to
\* (W - x2 - 1, y1, W - x1 - 1, y2), W the width of record i; records 1..N stay.
C4_FlipDoublesAndMirrors ==
  (ret.op = "append_flipped_images" /\ roidb.loaded /\ Before = Len(pre.index)) =>
    /\ ret.status = "ok"
    /\ Len(roidb.val) = 2 * Before
    /\ image_index = pre.index \o pre.index
    /\ pre.roidb.loaded => SubSeq(roidb.val, 1, Before) = pre.roidb.val
    /\ \A i \in 1..Before :
         LET old == roidb.val[i]
             new == roidb.val[Before + i]
         IN  /\ new.flipped
             /\ new.width = old.width /\ new.height = old.height
             /\ new.gt_classes = old.gt_classes
             /\ new.gt_overlaps = old.gt_overlaps
             /\ new.seg_areas = old.seg_areas
             /\ new.boxes = [k \in 1..Len(old.boxes) |->
                               <<old.width - old.boxes[k][3] - 1, old.boxes[k][2],
                                 old.width - old.boxes[k][1] - 1, old.boxes[k][4]>>]

\* the dense class index of an external category id: its place in the category list
DenseIndex(cat) == CHOOSE k \in 1..Len(coco.cats) : coco.cats[k].id = cat

\* C5: in a converted record the overlap row of a kept crowd annotation is -1.0
\* in every class column, background included, whatever its class; the row of
\* any other kept annotation is 1.0 in the column of its dense class index,
\* which is also its gt_classes entry, and 0 elsewhere.
C5_OverlapRows ==
  (ret.op = "gt_roidb" /\ ret.status = "ok") =>
    LET rec == Last(gt_calls)[1]
        kept == SelectSeq(coco.anns, ToKeep)
    IN  /\ Len(rec.gt_overlaps) = Len(kept)
        /\ \A k \in 1..Len(kept) :
             /\ rec.gt_classes[k] = DenseIndex(kept[k].category_id)
             /\ Len(rec.gt_overlaps[k]) = 1 + Len(coco.cats)
             /\ \A col \in 0..Len(coco.cats) :
                  rec.gt_overlaps[k][col + 1] =
                    IF kept[k].iscrowd THEN -1
                    ELSE IF col = DenseIndex(kept[k].category_id) THEN 1 ELSE 0

C5_Witness ==
  /\ ret.op = "gt_roidb" /\ ret.status = "ok"
  /\ Len(Last(gt_calls)[1].gt_overlaps) = 2
  /\ Last(gt_calls)[1].gt_overlaps[2] = <<-1, -1, -1>>
  /\ Last(gt_calls)[1].gt_classes = <<2, 1>>
  /\ Last(gt_calls)[1].gt_overlaps[1] = <<0, 0, 1>>

\* C10: when W - 1 fits in 16 bits, flipping the records of a conversion never
\* trips the assertion: the mirrored ends are W - x2 - 1 and W - x1 - 1 without
\* wrap-around, 0 <= x1' <= x2' <= W - 1, and mirroring twice gives the box back.
C10_FlipWithin16Bits ==
  (ret.op = "append_flipped_images" /\ roidb.loaded
     /\ TheImage.width - 1 < Uint16Modulus) =>
    /\ ret.status = "ok"
    /\ \A i \in 1..Before : \A k \in 1..Len(roidb.val[i].boxes) :
         LET old == roidb.val[i].boxes[k]
             new == roidb.val[Before + i].boxes[k]
             w == roidb.val[i].width
         IN  /\ new[1] = w - old[3] - 1
             /\ new[3] = w - old[1] - 1
             /\ 0 <= new[1] /\ new[1] <= new[3] /\ new[3] <= w - 1
             /\ FlipBoxes(<<new>>, w) = <<old>>

C10_Witness ==
  /\ ret.op = "append_flipped_images" /\ ret.status = "ok"
  /\ n_flips = 2
  /\ TheImage.width = Uint16Modulus
  /\ \E k \in 1..Len(roidb.val[1].boxes) :
       /\ roidb.val[1].boxes[k][1] = 0
       /\ roidb.val[2].boxes[k][3] = Uint16Modulus - 1
       /\ roidb.val[4].boxes[k] = roidb.val[1].boxes[k]

====
